---- MODULE Spec2Model ----
(***************************************************************************)
(* A model of functions.py: the finite-difference heat solvers             *)
(* (fd_forward_heat, fd_backward_heat), the reference solution and error   *)
(* metric (real_sol, get_max_error) and the Monte Carlo estimators         *)
(* (Monte_Carlo.Standard_MC, SMC, Anti_thetic_MC).                         *)
(*                                                                         *)
(* Numbers.  A Python/numpy float is modelled by an exact rational         *)
(* <<n, d>> in lowest terms with d > 0; floating-point rounding is not     *)
(* modelled.  The non-finite floats are <<1, 0>> (inf), <<-1, 0>> (-inf)   *)
(* and <<0, 0>> (nan).  Python ints stay integers.                         *)
(***************************************************************************)
EXTENDS Integers, Sequences, FiniteSets

VARIABLES
    fn,        \* the entry point that was called ("" before any call)
    pc,        \* position inside the call: "idle", a loop label, "done", "error"
    Nx, Nt, T, L, sigma,          \* arguments of the heat solvers
    delta_t, delta_x, nu,         \* locals of the heat solvers
    u,         \* the solution grid
    i, j,      \* loop indices
    B,         \* fd_backward_heat: the tridiagonal matrix
    U, R,      \* fd_backward_heat: the factors returned by lu(B, permute_l=True)
    U_inv, R_inv,                 \* fd_backward_heat: their inverses
    N, ov, alpha, r, K,           \* Monte_Carlo: the fields set by __init__ (T too)
    env,       \* Anti_thetic_MC: the Market passed as env (its s0, r, sigma)
    samples,   \* Anti_thetic_MC: the samples array
    draws,     \* Anti_thetic_MC: the values normal_z has taken, in order
    p_mc, var_mc, ki,             \* the estimators' results
    u_approx, u_t, error          \* get_max_error: argument, local, result

heatVars == <<Nx, Nt, T, L, sigma, delta_t, delta_x, nu, u, i, j>>
luVars == <<B, U, R, U_inv, R_inv>>
mcVars == <<N, ov, alpha, r, K, env, samples, draws, p_mc, var_mc, ki>>
errVars == <<u_approx, u_t, error>>
vars == <<fn, pc, heatVars, luVars, mcVars, errVars>>

(***************************************************************************)
(* Bounds of the model.                                                    *)
(***************************************************************************)
MaxNx == 4
MaxNt == 4
\* fd_backward_heat is called with Nx <= MaxNxB and Nt <= MaxNtB
MaxNxB == 3
MaxNtB == 3

(***************************************************************************)
(* Float arithmetic, as exact rational arithmetic.                         *)
(***************************************************************************)
Abs(x) == IF x < 0 THEN -x ELSE x

RECURSIVE GCD(_, _)
GCD(a, b) == IF b = 0 THEN a ELSE GCD(b, a % b)

\* n/d in lowest terms, d # 0
Rat(n, d) ==
    LET g == GCD(Abs(n), Abs(d))
        s == IF d < 0 THEN -1 ELSE 1
    IN  <<s * (n \div g), s * (d \div g)>>

RInt(n) == <<n, 1>>
Zero == <<0, 1>>
One == <<1, 1>>
Two == <<2, 1>>
Half == <<1, 2>>

RNeg(a) == <<-a[1], a[2]>>

RAdd(a, b) ==
    LET g == GCD(a[2], b[2])
    IN  Rat(a[1] * (b[2] \div g) + b[1] * (a[2] \div g), (a[2] \div g) * b[2])

RSub(a, b) == RAdd(a, RNeg(b))

RMul(a, b) ==
    LET g1 == GCD(Abs(a[1]), b[2])
        g2 == GCD(Abs(b[1]), a[2])
    IN  Rat((a[1] \div g1) * (b[1] \div g2), (a[2] \div g2) * (b[2] \div g1))

\* a / b for b # 0
RDiv(a, b) == RMul(a, Rat(b[2], b[1]))

RLe(a, b) == a[1] * b[2] <= b[1] * a[2]
RLt(a, b) == a[1] * b[2] < b[1] * a[2]

RAbs(a) == <<Abs(a[1]), a[2]>>

(***************************************************************************)
(* boundary_cond(x, L): the tent initial condition.                        *)
(***************************************************************************)
\* a boundary_cond that lost its else branch
boundary_cond_NoElse(x, l) == RMul(Two, x)

boundary_cond(x, l) ==
    IF RLe(x, RDiv(l, Two)) THEN RMul(Two, x) ELSE RMul(Two, RSub(l, x))

(***************************************************************************)
(* fd_forward_heat(Nx, Nt, T, L, sigma)                                    *)
(***************************************************************************)
NxSet == -1 .. MaxNx
NtSet == -1 .. MaxNt
\* the (T, L, sigma) a solver is called with
HeatArgs ==
    { <<(<<1, 10>>), One, One>>,      \* nu = Nx^2/(10 Nt)
      <<Half, One, One>>,             \* nu = Nx^2/(2 Nt)
      <<Half, Two, One>>,             \* nu = Nx^2/(8 Nt)
      <<Half, One, Half>>,            \* nu = Nx^2/(8 Nt), sigma # sigma^2
      <<Zero, One, One>>,             \* T = 0
      <<(<<-1, 2>>), One, One>>,      \* T < 0
      <<Half, (<<-1, 1>>), One>>,     \* L < 0
      <<Half, Zero, One>> }           \* L = 0

\* np.zeros((rows, cols)), rows and cols >= 0, indexed from 0
np_zeros2(rows, cols) == [a \in 0 .. rows - 1 |-> [b \in 0 .. cols - 1 |-> Zero]]

\* nu = (sigma**2)*(delta_t/(delta_x**2))
nu_of(s, dt, dx) == RMul(RMul(s, s), RDiv(dt, RMul(dx, dx)))

\* lines 203-206: the parameters and the zero grid; T / Nt, L / Nx and the
\* division by delta_x**2 raise ZeroDivisionError, np.zeros raises ValueError
\* on a negative dimension.
fwd_Enter(nx, nt, t, l, s) ==
    /\ UNCHANGED <<luVars, mcVars, errVars>>
    /\ pc = "idle"
    /\ fn' = "fd_forward_heat"
    /\ Nx' = nx /\ Nt' = nt /\ T' = t /\ L' = l /\ sigma' = s
    /\ IF nt = 0 \/ nx = 0 \/ l = Zero \/ nt + 1 < 0 \/ nx + 1 < 0
       THEN /\ pc' = "error"
            /\ UNCHANGED <<delta_t, delta_x, nu, u, i, j>>
       ELSE /\ delta_t' = RDiv(t, RInt(nt))
            /\ delta_x' = RDiv(l, RInt(nx))
            /\ nu' = nu_of(s, delta_t', delta_x')
            /\ u' = np_zeros2(nt + 1, nx + 1)
            /\ j' = 0
            /\ i' = 0
            /\ pc' = "fwd_ic"

\* lines 209-210: for j in range(Nx+1): u[0,j] = boundary_cond(j*delta_x, L)
fwd_FillInitial ==
    /\ UNCHANGED <<luVars, mcVars, errVars>>
    /\ pc = "fwd_ic"
    /\ IF j < Nx + 1
       THEN IF 0 \in DOMAIN u
            THEN /\ u' = [u EXCEPT ![0][j] = boundary_cond(RMul(RInt(j), delta_x), L)]
                 /\ j' = j + 1
                 /\ UNCHANGED <<pc, i>>
            ELSE /\ pc' = "error"          \* IndexError: the grid has no row 0
                 /\ UNCHANGED <<u, i, j>>
       ELSE /\ pc' = "fwd_bc"
            /\ i' = 0
            /\ UNCHANGED <<u, j>>
    /\ UNCHANGED <<fn, Nx, Nt, T, L, sigma, delta_t, delta_x, nu>>

\* lines 213-215: for i in range(Nt+1): u[i,0] = 0; u[i,-1] = 0
\* a boundary loop that lost its second assignment, u[i,-1] = 0
fwd_BoundaryRow_FirstOnly(w, row) == [w EXCEPT ![row][0] = Zero]

fwd_BoundaryRow(w, row) == [w EXCEPT ![row][0] = Zero, ![row][Nx] = Zero]

fwd_FillBoundary ==
    /\ UNCHANGED <<luVars, mcVars, errVars>>
    /\ pc = "fwd_bc"
    /\ IF i < Nt + 1
       THEN IF Nx + 1 > 0
            THEN /\ u' = fwd_BoundaryRow(u, i)
                 /\ i' = i + 1
                 /\ UNCHANGED <<pc, j>>
            ELSE /\ pc' = "error"          \* IndexError: the grid has no column 0
                 /\ UNCHANGED <<u, i, j>>
       ELSE /\ pc' = "fwd_march"
            /\ i' = 0
            /\ j' = 1
            /\ UNCHANGED u
    /\ UNCHANGED <<fn, Nx, Nt, T, L, sigma, delta_t, delta_x, nu>>

\* the stencil with (1-nu) for (1-2*nu)
fwd_Stencil_OneNu(w, row, col) ==
    RAdd(RAdd(RMul(nu, w[row][col - 1]),
              RMul(RSub(One, nu), w[row][col])),
         RMul(nu, w[row][col + 1]))

\* the stencil with (1+2*nu) for (1-2*nu)
fwd_Stencil_Plus(w, row, col) ==
    RAdd(RAdd(RMul(nu, w[row][col - 1]),
              RMul(RAdd(One, RMul(Two, nu)), w[row][col])),
         RMul(nu, w[row][col + 1]))

\* line 220: nu*u[i, j-1] + (1-2*nu)*u[i, j] + nu*u[i, j+1]
fwd_Stencil(w, row, col) ==
    RAdd(RAdd(RMul(nu, w[row][col - 1]),
              RMul(RSub(One, RMul(Two, nu)), w[row][col])),
         RMul(nu, w[row][col + 1]))

\* lines 218-220: one assignment of the inner loop
fwd_Inner ==
    /\ UNCHANGED <<luVars, mcVars, errVars>>
    /\ pc = "fwd_march"
    /\ i < Nt
    /\ j < Nx
    /\ u' = [u EXCEPT ![i + 1][j] = fwd_Stencil(u, i, j)]
    /\ j' = j + 1
    /\ UNCHANGED <<fn, pc, Nx, Nt, T, L, sigma, delta_t, delta_x, nu, i>>

\* line 218: the inner loop is exhausted, the outer loop takes the next i
fwd_NextRow ==
    /\ UNCHANGED <<luVars, mcVars, errVars>>
    /\ pc = "fwd_march"
    /\ i < Nt
    /\ j >= Nx
    /\ i' = i + 1
    /\ j' = 1
    /\ UNCHANGED <<fn, pc, Nx, Nt, T, L, sigma, delta_t, delta_x, nu, u>>

\* line 222: return u
fwd_Return ==
    /\ UNCHANGED <<luVars, mcVars, errVars>>
    /\ pc = "fwd_march"
    /\ i >= Nt
    /\ pc' = "done"
    /\ UNCHANGED <<fn, heatVars>>

fd_forward_heat ==
    \/ \E nx \in NxSet, nt \in NtSet, a \in HeatArgs :
          fwd_Enter(nx, nt, a[1], a[2], a[3])
    \/ fwd_FillInitial
    \/ fwd_FillBoundary
    \/ fwd_Inner
    \/ fwd_NextRow
    \/ fwd_Return

(***************************************************************************)
(* Linear algebra used by fd_backward_heat.  A matrix is a function        *)
(* [0..n-1 -> [0..n-1 -> rational]], a vector a function on 0..n-1.        *)
(***************************************************************************)
RECURSIVE DotUpTo(_, _, _)
DotUpTo(row, v, k) ==
    IF k = 0 THEN Zero
    ELSE RAdd(DotUpTo(row, v, k - 1), RMul(row[k - 1], v[k - 1]))

\* M.dot(v) for an n x n matrix M
np_dot(M, v, n) == [a \in 0 .. n - 1 |-> DotUpTo(M[a], v, n)]

SwapRows(M, a, b) ==
    [row \in DOMAIN M |-> IF row = a THEN M[b] ELSE IF row = b THEN M[a] ELSE M[row]]

\* the row LAPACK's partial pivoting picks in column k: the first row >= k
\* of largest absolute value
PivotRow(M, k, n) ==
    CHOOSE p \in k .. n - 1 :
        \A q \in k .. n - 1 :
            /\ RLe(RAbs(M[q][k]), RAbs(M[p][k]))
            /\ (RAbs(M[q][k]) = RAbs(M[p][k]) => p <= q)

\* one column of the elimination, on the pivoted matrix: the multipliers
\* are stored below the diagonal; a zero pivot leaves the column as it is
Eliminate(M, k, n) ==
    IF M[k][k] = Zero THEN M
    ELSE [row \in 0 .. n - 1 |->
            IF row <= k THEN M[row]
            ELSE LET m == RDiv(M[row][k], M[k][k])
                 IN  [col \in 0 .. n - 1 |->
                        IF col < k THEN M[row][col]
                        ELSE IF col = k THEN m
                        ELSE RSub(M[row][col], RMul(m, M[k][col]))]]

\* the elimination from column k on; perm[a] is the original row now in row a
RECURSIVE LUFrom(_, _, _, _)
LUFrom(M, perm, k, n) ==
    IF k >= n THEN [lu |-> M, perm |-> perm]
    ELSE LET p == PivotRow(M, k, n)
             perm1 == [a \in 0 .. n - 1 |->
                         IF a = k THEN perm[p] ELSE IF a = p THEN perm[k] ELSE perm[a]]
         IN  LUFrom(Eliminate(SwapRows(M, k, p), k, n), perm1, k + 1, n)

\* scipy.linalg.lu(M, permute_l=True): (P*L, U) with M = (P*L)*U, L unit
\* lower triangular, U upper triangular
scipy_lu(M, n) ==
    LET f == LUFrom(M, [a \in 0 .. n - 1 |-> a], 0, n)
        pos(orig) == CHOOSE a \in 0 .. n - 1 : f.perm[a] = orig
    IN  [PL |-> [row \in 0 .. n - 1 |-> [col \in 0 .. n - 1 |->
                    IF col = pos(row) THEN One
                    ELSE IF col < pos(row) THEN f.lu[pos(row)][col] ELSE Zero]],
         Upper |-> [row \in 0 .. n - 1 |-> [col \in 0 .. n - 1 |->
                    IF col >= row THEN f.lu[row][col] ELSE Zero]]]

\* M without row a and column b
Minor(M, n, a, b) ==
    [row \in 0 .. n - 2 |-> [col \in 0 .. n - 2 |->
        M[IF row < a THEN row ELSE row + 1][IF col < b THEN col ELSE col + 1]]]

RSign(k) == IF k % 2 = 0 THEN One ELSE RNeg(One)

\* the determinant, expanded along row 0
RECURSIVE Det(_, _)
RECURSIVE DetUpTo(_, _, _)
DetUpTo(M, n, k) ==
    IF k = 0 THEN Zero
    ELSE RAdd(DetUpTo(M, n, k - 1),
              RMul(RMul(RSign(k - 1), M[0][k - 1]), Det(Minor(M, n, 0, k - 1), n - 1)))
Det(M, n) == IF n = 0 THEN One ELSE IF n = 1 THEN M[0][0] ELSE DetUpTo(M, n, n)

Singular(M, n) == Det(M, n) = Zero

\* np.linalg.inv(M) for a non-singular M
np_linalg_inv(M, n) ==
    [row \in 0 .. n - 1 |-> [col \in 0 .. n - 1 |->
        RDiv(RMul(RSign(row + col), Det(Minor(M, n, col, row), n - 1)), Det(M, n))]]

(***************************************************************************)
(* fd_backward_heat(Nx, Nt, T, L, sigma)                                   *)
(***************************************************************************)
NxSetB == -1 .. MaxNxB
NtSetB == -1 .. MaxNtB

\* the (delta_t, delta_x, sigma) of a call: it is called with T = delta_t*Nt
\* and L = delta_x*Nx
BwdArgs ==
    { <<One, One, One>>,              \* nu = 1
      <<Half, One, One>>,             \* nu = 1/2
      <<One, One, Half>>,             \* nu = 1/4
      <<Two, One, One>>,              \* nu = 2
      <<One, Two, One>>,              \* nu = 1/4, delta_x = 2
      <<Zero, One, One>>,             \* T = 0, nu = 0
      <<(<<-1, 2>>), One, One>>,      \* T < 0, nu = -1/2
      <<(<<-1, 1>>), One, One>>,      \* T < 0, nu = -1
      <<One, (<<-1, 1>>), One>>,      \* L < 0 (for Nx > 0)
      <<One, Zero, One>> }            \* L = 0

\* lines 234-241: the parameters, the zero grid and the zero matrix
bwd_Enter(nx, nt, t, l, s) ==
    /\ UNCHANGED <<mcVars, errVars>>
    /\ pc = "idle"
    /\ fn' = "fd_backward_heat"
    /\ Nx' = nx /\ Nt' = nt /\ T' = t /\ L' = l /\ sigma' = s
    /\ IF nt = 0 \/ nx = 0 \/ l = Zero \/ nt < 0 \/ nx < 0
       THEN /\ pc' = "error"
            /\ UNCHANGED <<delta_t, delta_x, nu, u, i, j, luVars>>
       ELSE /\ delta_t' = RDiv(t, RInt(nt))
            /\ delta_x' = RDiv(l, RInt(nx))
            /\ nu' = nu_of(s, delta_t', delta_x')
            /\ u' = np_zeros2(nx, nt)
            /\ B' = np_zeros2(nx - 1, nx - 1)
            /\ i' = 0
            /\ j' = 0
            /\ pc' = "bwd_diag"
            /\ UNCHANGED <<U, R, U_inv, R_inv>>

\* lines 242-243: for i in range(Nx-1): B[i,i] = 1+2*nu
bwd_Diagonal ==
    /\ UNCHANGED <<mcVars, errVars>>
    /\ pc = "bwd_diag"
    /\ IF i < Nx - 1
       THEN /\ B' = [B EXCEPT ![i][i] = RAdd(One, RMul(Two, nu))]
            /\ i' = i + 1
            /\ UNCHANGED pc
       ELSE /\ pc' = "bwd_off"
            /\ i' = 0
            /\ UNCHANGED B
    /\ UNCHANGED <<fn, Nx, Nt, T, L, sigma, delta_t, delta_x, nu, u, j, U, R, U_inv, R_inv>>

\* lines 246-247: B[i+1,i] = -nu; B[i,i+1] = -nu
bwd_OffEntries(M, k) == [M EXCEPT ![k + 1][k] = RNeg(nu), ![k][k + 1] = RNeg(nu)]

\* lines 245-247: for i in range(Nx-2)
bwd_OffDiagonal ==
    /\ UNCHANGED <<mcVars, errVars>>
    /\ pc = "bwd_off"
    /\ IF i < Nx - 2
       THEN /\ B' = bwd_OffEntries(B, i)
            /\ i' = i + 1
            /\ UNCHANGED pc
       ELSE /\ pc' = "bwd_lu"
            /\ i' = 0
            /\ UNCHANGED B
    /\ UNCHANGED <<fn, Nx, Nt, T, L, sigma, delta_t, delta_x, nu, u, j, U, R, U_inv, R_inv>>

\* lines 251-253: U, R = lu(B, permute_l=True); the two inverses.
\* np.linalg.inv raises LinAlgError on a singular factor; whether lu accepts
\* the empty matrix of Nx = 1 depends on the scipy version, so both outcomes
\* are allowed.
bwd_Factorize ==
    /\ UNCHANGED <<mcVars, errVars>>
    /\ pc = "bwd_lu"
    /\ LET f == scipy_lu(B, Nx - 1)
       IN  \/ /\ ~Singular(f.PL, Nx - 1) /\ ~Singular(f.Upper, Nx - 1)
              /\ U' = f.PL
              /\ R' = f.Upper
              /\ U_inv' = np_linalg_inv(f.PL, Nx - 1)
              /\ R_inv' = np_linalg_inv(f.Upper, Nx - 1)
              /\ j' = 1
              /\ pc' = "bwd_ic"
           \/ /\ Singular(f.PL, Nx - 1) \/ Singular(f.Upper, Nx - 1) \/ Nx = 1
              /\ pc' = "error"
              /\ UNCHANGED <<U, R, U_inv, R_inv, j>>
    /\ UNCHANGED <<fn, Nx, Nt, T, L, sigma, delta_t, delta_x, nu, u, i, B>>

\* lines 258-259: for j in range(1, Nx): u[j,0] = boundary_cond(j*delta_x, L)
bwd_FillInitial ==
    /\ UNCHANGED <<mcVars, errVars>>
    /\ pc = "bwd_ic"
    /\ IF j < Nx
       THEN /\ u' = [u EXCEPT ![j][0] = boundary_cond(RMul(RInt(j), delta_x), L)]
            /\ j' = j + 1
            /\ UNCHANGED <<pc, i>>
       ELSE /\ pc' = "bwd_loop"
            /\ i' = 0
            /\ UNCHANGED <<u, j>>
    /\ UNCHANGED <<fn, Nx, Nt, T, L, sigma, delta_t, delta_x, nu, luVars>>

\* u[1:, col]
bwd_Column(w, col) == [a \in 0 .. Nx - 2 |-> w[a + 1][col]]

\* a step that applies the two inverses in the other order
bwd_Solve_Swapped(v) == np_dot(U_inv, np_dot(R_inv, v, Nx - 1), Nx - 1)

\* lines 266-267: y = U_inv.dot(u_vec); R_inv.dot(y)
bwd_Solve(v) == np_dot(R_inv, np_dot(U_inv, v, Nx - 1), Nx - 1)

\* lines 264-267: one step of the time loop, for i in range(Nt-1)
bwd_Step ==
    /\ UNCHANGED <<mcVars, errVars>>
    /\ pc = "bwd_loop"
    /\ i < Nt - 1
    /\ LET next == bwd_Solve(bwd_Column(u, i))
       IN  u' = [a \in 0 .. Nx - 1 |->
                    IF a = 0 THEN u[a] ELSE [u[a] EXCEPT ![i + 1] = next[a - 1]]]
    /\ i' = i + 1
    /\ UNCHANGED <<fn, pc, Nx, Nt, T, L, sigma, delta_t, delta_x, nu, j, luVars>>

\* line 268: return u
bwd_Return ==
    /\ UNCHANGED <<mcVars, errVars>>
    /\ pc = "bwd_loop"
    /\ i >= Nt - 1
    /\ pc' = "done"
    /\ UNCHANGED <<fn, heatVars, luVars>>

fd_backward_heat ==
    \/ \E nx \in NxSetB, nt \in NtSetB, a \in BwdArgs :
          bwd_Enter(nx, nt, RMul(a[1], RInt(nt)), RMul(a[2], RInt(nx)), a[3])
    \/ bwd_Diagonal
    \/ bwd_OffDiagonal
    \/ bwd_Factorize
    \/ bwd_FillInitial
    \/ bwd_Step
    \/ bwd_Return

(***************************************************************************)
(* Non-finite floats and the numpy/scipy functions of the estimators.      *)
(***************************************************************************)
NaN == <<0, 0>>
Inf == <<1, 0>>
NegInf == <<-1, 0>>

IsFinite(a) == a[2] # 0
Sgn(n) == IF n > 0 THEN 1 ELSE IF n < 0 THEN -1 ELSE 0

XNeg(a) == <<-a[1], a[2]>>

XAdd(a, b) ==
    IF IsFinite(a) /\ IsFinite(b) THEN RAdd(a, b)
    ELSE IF a = NaN \/ b = NaN THEN NaN
    ELSE IF IsFinite(a) THEN b
    ELSE IF IsFinite(b) THEN a
    ELSE IF a = b THEN a ELSE NaN

XSub(a, b) == XAdd(a, XNeg(b))

XMul(a, b) ==
    IF IsFinite(a) /\ IsFinite(b) THEN RMul(a, b)
    ELSE IF a = NaN \/ b = NaN \/ a[1] = 0 \/ b[1] = 0 THEN NaN
    ELSE <<Sgn(a[1]) * Sgn(b[1]), 0>>

\* a numpy float divided by the Python int n: a division by zero gives
\* inf or nan (and a RuntimeWarning), not an exception
XDivInt(a, n) ==
    IF a = NaN THEN NaN
    ELSE IF n = 0 THEN (IF a[1] = 0 THEN NaN ELSE <<Sgn(a[1]), 0>>)
    ELSE IF IsFinite(a) THEN RDiv(a, RInt(n))
    ELSE <<Sgn(a[1]) * Sgn(n), 0>>

\* a <= b on floats: false when either is nan
XLe(a, b) ==
    IF a = NaN \/ b = NaN THEN FALSE
    ELSE IF IsFinite(a) /\ IsFinite(b) THEN RLe(a, b)
    ELSE IF IsFinite(a) THEN b = Inf
    ELSE IF IsFinite(b) THEN a = NegInf
    ELSE a = NegInf \/ b = Inf

RECURSIVE SumUpTo(_, _)
SumUpTo(xs, k) == IF k = 0 THEN Zero ELSE RAdd(SumUpTo(xs, k - 1), xs[k])

\* np.mean of a 1-d array of finite floats; nan for the empty array
np_mean(xs) ==
    IF Len(xs) = 0 THEN NaN ELSE RDiv(SumUpTo(xs, Len(xs)), RInt(Len(xs)))

\* np.var: the mean of the squared deviations from the mean (ddof = 0)
np_var(xs) ==
    IF Len(xs) = 0 THEN NaN
    ELSE LET m == np_mean(xs)
         IN  np_mean([k \in 1 .. Len(xs) |-> RMul(RSub(xs[k], m), RSub(xs[k], m))])

\* the largest k in lo..hi with k*k <= m, given lo*lo <= m
RECURSIVE ISqrtIn(_, _, _)
ISqrtIn(lo, hi, m) ==
    IF lo >= hi THEN lo
    ELSE LET mid == (lo + hi + 1) \div 2
         IN  IF mid * mid <= m THEN ISqrtIn(mid, hi, m) ELSE ISqrtIn(lo, mid - 1, m)

\* np.sqrt: nan for a negative argument; for n/d >= 0 the root of n*d over
\* d, rounded down to a multiple of 1/(10 d): exact for a rational square
np_sqrt(a) ==
    IF a = NaN \/ a = NegInf THEN NaN
    ELSE IF a = Inf THEN Inf
    ELSE IF a[1] < 0 THEN NaN
    ELSE Rat(ISqrtIn(0, 10 * (a[1] + a[2]), 100 * a[1] * a[2]), 10 * a[2])

\* np.exp on a finite float, by its Taylor polynomial of degree 2 (positive
\* everywhere, 1 at 0)
np_exp(x) == RAdd(RAdd(One, x), RMul(Half, RMul(x, x)))

\* scipy.stats.norm.ppf at the probabilities the model evaluates it at,
\* rounded: 1.96 at 0.975 and 0.675 at 0.75; -inf at 0, inf at 1, nan
\* outside [0, 1]
norm_ppf(q) ==
    CASE q = Zero -> NegInf
      [] q = One -> Inf
      [] q = Half -> Zero
      [] q = <<3, 4>> -> <<27, 40>>
      [] q = <<1, 4>> -> <<-27, 40>>
      [] q = <<39, 40>> -> <<49, 25>>
      [] q = <<1, 40>> -> <<-49, 25>>
      [] OTHER -> NaN

(***************************************************************************)
(* Market.bs_phi and class Monte_Carlo                                     *)
(***************************************************************************)
MaxN == 2
MaxLen == 2

\* Market.bs_phi(t, x) = s0*exp((r - 0.5*sigma**2)*t + sigma*x), on the
\* Market e
bs_phi(e, t, x) ==
    RMul(e.s0,
         np_exp(RAdd(RMul(RSub(e.r, RMul(Half, RMul(e.sigma, e.sigma))), t),
                     RMul(e.sigma, x))))

NSet == -1 .. MaxN
OvValues == {One, <<3, 1>>}
OvSet == UNION {[1 .. n -> OvValues] : n \in 1 .. MaxLen}
AlphaSet == {Zero, <<1, 20>>, Half, One, <<3, 2>>}
\* the (r, T) of a Monte_Carlo
RateSet == {<<Zero, One>>, <<One, One>>, <<One, Zero>>}
KSet == {Zero, Two}
EnvSet == { [s0 |-> One, r |-> Zero, sigma |-> Zero],
            [s0 |-> One, r |-> Zero, sigma |-> One] }
ZSet == {RNeg(One), Zero, One}

\* lines 112-118: Monte_Carlo.__init__ stores its arguments
MC_init(n, rv, a, rr, t, k) ==
    /\ pc = "idle"
    /\ fn' = "Monte_Carlo"
    /\ pc' = "mc_ready"
    /\ N' = n /\ ov' = rv /\ alpha' = a /\ r' = rr /\ T' = t /\ K' = k
    /\ UNCHANGED <<Nx, Nt, L, sigma, delta_t, delta_x, nu, u, i, j>>
    /\ UNCHANGED <<luVars, errVars, env, samples, draws, p_mc, var_mc, ki>>

\* a percentile taken at 0.5*alpha
percentile_Lower == norm_ppf(RMul(Half, alpha))

\* lines 131, 147, 167: percentile = sc.stats.norm.ppf(1 - 0.5*self.alpha)
percentile == norm_ppf(RSub(One, RMul(Half, alpha)))

\* lines 132-134, 148-150, 168-170: ki = [lower, upper]
confidence(p, v) ==
    LET h == XDivInt(XMul(percentile, np_sqrt(v)), N)
    IN  <<XSub(p, h), XAdd(p, h)>>

discount == np_exp(RNeg(RMul(r, T)))

\* lines 129-135
Standard_MC ==
    /\ pc = "mc_ready"
    /\ fn' = "Standard_MC"
    /\ p_mc' = XMul(discount, np_mean(ov))
    /\ var_mc' = np_var(ov)
    /\ ki' = confidence(p_mc', var_mc')
    /\ pc' = "done"
    /\ UNCHANGED <<heatVars, luVars, errVars, N, ov, alpha, r, K, env, samples, draws>>

\* lines 145-151
SMC ==
    /\ pc = "mc_ready"
    /\ fn' = "SMC"
    /\ p_mc' = np_mean(ov)
    /\ var_mc' = np_var(ov)
    /\ ki' = confidence(p_mc', var_mc')
    /\ pc' = "done"
    /\ UNCHANGED <<heatVars, luVars, errVars, N, ov, alpha, r, K, env, samples, draws>>

\* lines 160-161: samples = np.zeros(shape=(self.N,)), which raises
\* ValueError for N < 0
Anti_Enter(e) ==
    /\ pc = "mc_ready"
    /\ fn' = "Anti_thetic_MC"
    /\ env' = e
    /\ IF N < 0
       THEN /\ pc' = "error"
            /\ UNCHANGED <<samples, j>>
       ELSE /\ samples' = [k \in 1 .. N |-> Zero]
            /\ j' = 0
            /\ pc' = "anti_loop"
    /\ UNCHANGED <<Nx, Nt, T, L, sigma, delta_t, delta_x, nu, u, i>>
    /\ UNCHANGED <<luVars, errVars, N, ov, alpha, r, K, draws, p_mc, var_mc, ki>>

\* a constant that lost its 0.5
anti_const_NoHalf == discount

\* line 161: const = 0.5*np.exp(-self.r*self.T)
anti_const == RMul(Half, discount)

\* np.max(a, 0): the maximum of the 1-d array a along axis 0
np_max_axis0(a) ==
    CHOOSE m \in {a[k] : k \in 1 .. Len(a)} : \A k \in 1 .. Len(a) : RLe(a[k], m)

\* line 164: np.max(env.bs_phi(...) - self.K, 0), bs_phi(...) an array of
\* shape (1,) as normal_z is
call_payoff(phi) == np_max_axis0(<<RSub(phi, K)>>)

\* line 164: the sample of the draw z
anti_sample(z) ==
    RMul(anti_const,
         RAdd(call_payoff(bs_phi(env, T, RMul(np_sqrt(T), z))),
              call_payoff(bs_phi(env, T, RMul(RMul(RNeg(One), np_sqrt(T)), z)))))

\* lines 162-164: one iteration of the loop, normal_z = z; samples[j] is
\* samples[j + 1] here
Anti_Sample(z) ==
    /\ pc = "anti_loop"
    /\ j < N
    /\ draws' = Append(draws, z)
    /\ samples' = [samples EXCEPT ![j + 1] = anti_sample(z)]
    /\ j' = j + 1
    /\ UNCHANGED <<fn, pc, Nx, Nt, T, L, sigma, delta_t, delta_x, nu, u, i>>
    /\ UNCHANGED <<luVars, errVars, N, ov, alpha, r, K, env, p_mc, var_mc, ki>>

\* lines 165-171
Anti_Finish ==
    /\ pc = "anti_loop"
    /\ j >= N
    /\ p_mc' = np_mean(samples)
    /\ var_mc' = np_var(samples)
    /\ ki' = confidence(p_mc', var_mc')
    /\ pc' = "done"
    /\ UNCHANGED <<fn, heatVars, luVars, errVars, N, ov, alpha, r, K, env, samples, draws>>

Monte_Carlo ==
    \/ \E n \in NSet, rv \in OvSet, a \in AlphaSet, rt \in RateSet, k \in KSet :
          MC_init(n, rv, a, rt[1], rt[2], k)
    \/ Standard_MC
    \/ SMC
    \/ \E e \in EnvSet : Anti_Enter(e)
    \/ \E z \in ZSet : Anti_Sample(z)
    \/ Anti_Finish

(***************************************************************************)
(* real_sol(t, x) and get_max_error(delta_x, u_approx, L)                  *)
(***************************************************************************)
\* the number of terms of the series that are summed (n = 10000 in line 272)
SeriesTerms == 2
MaxSlice == 4

\* np.sin on a finite float, by its Taylor polynomial of degree 3
np_sin(x) == RSub(x, RDiv(RMul(x, RMul(x, x)), RInt(6)))

\* np.pi, as 22/7
np_pi == <<22, 7>>

\* line 276: the i-th term,
\* ((-1)**(i-1))*np.exp((-(2*i-1)**2)*t)*(np.sin((2*i-1)*x))*((2*i-1)**(-2))
real_sol_term(k, t, x) ==
    LET odd == RInt(2 * k - 1)
    IN  RMul(RMul(RMul(RSign(k - 1), np_exp(RMul(RNeg(RMul(odd, odd)), t))),
                  np_sin(RMul(odd, x))),
             RDiv(One, RMul(odd, odd)))

RECURSIVE real_sol_sum(_, _, _)
real_sol_sum(k, t, x) ==
    IF k = 0 THEN Zero ELSE RAdd(real_sol_sum(k - 1, t, x), real_sol_term(k, t, x))

\* lines 271-279
real_sol(t, x) == RMul(RDiv(RInt(8), np_pi), real_sol_sum(SeriesTerms, t, x))

\* the space point of index k (from 0): L*j/delta_x
space_point(k, dx, l) == RDiv(RMul(l, RInt(k)), dx)

\* the slices get_max_error is called with: the reference solution sampled at
\* the points of the slice, the zero slice, and the reference at the last
\* point repeated
DxSet == {Zero, One, Two}
LSetErr == {One, Two, <<3, 1>>}
SliceKinds == {"reference", "zeros", "flat"}

slice_of(kind, len, dx, l) ==
    [k \in 1 .. len |->
        IF kind = "zeros" \/ dx = Zero THEN Zero
        ELSE IF kind = "flat" THEN real_sol(<<1, 10>>, space_point(len - 1, dx, l))
        ELSE real_sol(<<1, 10>>, space_point(k - 1, dx, l))]

\* the call; u_approx[j] is u_approx[j + 1] here
err_Enter(dx, ua, l) ==
    /\ pc = "idle"
    /\ fn' = "get_max_error"
    /\ delta_x' = dx /\ u_approx' = ua /\ L' = l
    /\ j' = 0
    /\ pc' = "err_loop"
    /\ UNCHANGED <<Nx, Nt, T, sigma, delta_t, nu, u, i>>
    /\ UNCHANGED <<luVars, mcVars, u_t, error>>

\* lines 286-287: for j in range(len(u_approx)): u_t = real_sol(0.1, L*j/delta_x);
\* the division raises ZeroDivisionError for delta_x = 0
err_Loop ==
    /\ pc = "err_loop"
    /\ j < Len(u_approx)
    /\ IF delta_x = Zero
       THEN /\ pc' = "error"
            /\ UNCHANGED <<u_t, j>>
       ELSE /\ u_t' = real_sol(<<1, 10>>, space_point(j, delta_x, L))
            /\ j' = j + 1
            /\ UNCHANGED pc
    /\ UNCHANGED <<fn, Nx, Nt, T, L, sigma, delta_t, delta_x, nu, u, i>>
    /\ UNCHANGED <<luVars, mcVars, u_approx, error>>

\* the maximum of a non-empty 1-d array
array_max(a) ==
    CHOOSE m \in {a[k] : k \in 1 .. Len(a)} : \A k \in 1 .. Len(a) : RLe(a[k], m)

\* lines 288-290: diff = abs(u_t - u_approx); error = diff.max(); for an
\* empty u_approx u_t was never bound and line 288 raises UnboundLocalError
err_Finish ==
    /\ pc = "err_loop"
    /\ j >= Len(u_approx)
    /\ IF Len(u_approx) = 0
       THEN /\ pc' = "error"
            /\ UNCHANGED error
       ELSE /\ error' = array_max([k \in 1 .. Len(u_approx) |-> RAbs(RSub(u_t, u_approx[k]))])
            /\ pc' = "done"
    /\ UNCHANGED <<fn, heatVars, luVars, mcVars, u_approx, u_t>>

get_max_error ==
    \/ \E dx \in DxSet, l \in LSetErr, kind \in SliceKinds, len \in 0 .. MaxSlice :
          err_Enter(dx, slice_of(kind, len, dx, l), l)
    \/ err_Loop
    \/ err_Finish

Init ==
    /\ fn = ""
    /\ pc = "idle"
    /\ Nx = 0 /\ Nt = 0 /\ T = Zero /\ L = Zero /\ sigma = Zero
    /\ delta_t = Zero /\ delta_x = Zero /\ nu = Zero
    /\ u = <<>>
    /\ i = 0 /\ j = 0
    /\ B = <<>> /\ U = <<>> /\ R = <<>> /\ U_inv = <<>> /\ R_inv = <<>>
    /\ N = 0 /\ ov = <<>> /\ alpha = Zero /\ r = Zero /\ K = Zero
    /\ env = [s0 |-> Zero, r |-> Zero, sigma |-> Zero]
    /\ samples = <<>> /\ draws = <<>>
    /\ p_mc = Zero /\ var_mc = Zero /\ ki = <<Zero, Zero>>
    /\ u_approx = <<>> /\ u_t = Zero /\ error = Zero

NextFwd == fd_forward_heat

SpecFwd == Init /\ [][NextFwd]_vars

NextBwd == fd_backward_heat

SpecBwd == Init /\ [][NextBwd]_vars

NextMC == Monte_Carlo

SpecMC == Init /\ [][NextMC]_vars

NextErr == get_max_error

SpecErr == Init /\ [][NextErr]_vars

Next ==
    \/ fd_forward_heat
    \/ fd_backward_heat
    \/ Monte_Carlo
    \/ get_max_error

Spec == Init /\ [][Next]_vars

(***************************************************************************)
(* Claims about fd_forward_heat, checked under SpecFwd.                    *)
(***************************************************************************)
fwd_Running == fn = "fd_forward_heat" /\ pc \notin {"idle", "error"}

TentAt(col) ==
    LET x == RDiv(RMul(RInt(col), L), RInt(Nx))
    IN  IF RLe(RMul(Two, x), L) THEN RAdd(x, x) ELSE RSub(RAdd(L, L), RAdd(x, x))

\* C2: the grid has exactly Nt+1 rows of Nx+1 columns; once row 0 is
\* filled (and so in the returned grid) u[0,col] is the tent at
\* x = col*L/Nx for every interior col, and for even Nx the peak
\* u[0,Nx/2] equals L.
C2_InitialRow ==
    (fn = "fd_forward_heat" /\ pc \in {"fwd_bc", "fwd_march", "done"})
    => /\ DOMAIN u = 0 .. Nt
       /\ \A row \in DOMAIN u : DOMAIN u[row] = 0 .. Nx
       /\ \A col \in 1 .. Nx - 1 : u[0][col] = TentAt(col)
       /\ (Nx >= 2 /\ Nx % 2 = 0) => u[0][Nx \div 2] = L

\* C2 witness: explicit_heat(Nx=4, Nt=4, T=0.1, L=1.0, sigma=1.0) returned a
\* 5x5 grid with the peak u[0,2] = 1.
C2_Witness ==
    /\ fn = "fd_forward_heat" /\ pc = "done"
    /\ Nx = 4 /\ Nt = 4 /\ T = <<1, 10>> /\ L = One /\ sigma = One
    /\ DOMAIN u = 0 .. 4 /\ DOMAIN u[0] = 0 .. 4
    /\ u[0] = [col \in 0 .. 4 |-> IF col \in {1, 3} THEN Half
                                  ELSE IF col = 2 THEN One ELSE Zero]

\* nu = sigma^2 * (T/Nt) / (L/Nx)^2, from the arguments
NuFromArgs ==
    RDiv(RMul(RMul(sigma, sigma), RDiv(T, RInt(Nt))),
         RMul(RDiv(L, RInt(Nx)), RDiv(L, RInt(Nx))))

\* the entry (row+1, col) obeys the update rule
C3_Rule(row, col) ==
    u[row + 1][col] =
        RAdd(RAdd(RMul(NuFromArgs, u[row][col - 1]),
                  RMul(RSub(One, RAdd(NuFromArgs, NuFromArgs)), u[row][col])),
             RMul(NuFromArgs, u[row][col + 1]))

C3_Computed ==
    (fn = "fd_forward_heat" /\ pc \in {"fwd_march", "done"})
    => \A row \in 0 .. Nt - 1 : \A col \in 1 .. Nx - 1 :
          (row < i \/ (row = i /\ col < j)) => C3_Rule(row, col)

C3_Frozen ==
    (fn = "fd_forward_heat" /\ pc = "fwd_march")
    => /\ \A row \in 0 .. Nt : row <= i => u'[row] = u[row]
       /\ \A col \in 0 .. Nx : (i < Nt /\ col < j) => u'[i + 1][col] = u[i + 1][col]

\* C3: every interior entry computed so far (all of them in the returned
\* grid) satisfies u[r+1,c] = nu*u[r,c-1] + (1-2*nu)*u[r,c] + nu*u[r,c+1]
\* with nu = sigma^2*(T/Nt)/(L/Nx)^2, and no step of the loop changes a row
\* 0..i that is already complete, nor an entry of row i+1 already computed.
C3_UpdateRule == [] C3_Computed /\ [][C3_Frozen]_vars

\* C3 witness: a returned grid with nu > 0 whose second time step produced
\* a non-zero interior value by the rule.
C3_Witness ==
    /\ fn = "fd_forward_heat" /\ pc = "done"
    /\ Nx >= 3 /\ Nt >= 2 /\ RLt(Zero, nu)
    /\ u[2][1] # Zero /\ u[2][1] # u[1][1]
    /\ C3_Rule(1, 1)

\* C10: for L > 0 and 0 <= nu <= 1/2 every entry of the grid is within
\* [0, L] in every state of the call (after each step, not only on return);
\* and for any nu a call with Nx >= 1, Nt >= 1 and L # 0 never raises and
\* returns only after all Nt steps.
C10_MaximumPrinciple ==
    /\ (fwd_Running /\ RLt(Zero, L) /\ RLe(Zero, nu) /\ RLe(nu, Half))
       => \A row \in DOMAIN u : \A col \in DOMAIN u[row] :
             RLe(Zero, u[row][col]) /\ RLe(u[row][col], L)
    /\ (fn = "fd_forward_heat" /\ Nx >= 1 /\ Nt >= 1 /\ L # Zero)
       => pc # "error" /\ (pc = "done" => i = Nt)

\* C10 witness: a returned grid, stable (0 < nu <= 1/2), with an interior
\* value of the last row strictly between 0 and L.
C10_Witness ==
    /\ fn = "fd_forward_heat" /\ pc = "done"
    /\ Nx >= 3 /\ Nt >= 2
    /\ RLt(Zero, L) /\ RLt(Zero, nu) /\ RLe(nu, Half)
    /\ RLt(Zero, u[Nt][1]) /\ RLt(u[Nt][1], L)

\* C10, second half: with nu > 1/2 a returned grid can leave [0, L]; this
\* state is reachable.
C10_Unstable ==
    /\ fn = "fd_forward_heat" /\ pc = "done"
    /\ RLt(Zero, L) /\ RLt(Half, nu)
    /\ \E row \in DOMAIN u : \E col \in DOMAIN u[row] :
          RLt(u[row][col], Zero) \/ RLt(L, u[row][col])

(***************************************************************************)
(* Claims about fd_backward_heat, checked under SpecBwd.                   *)
(***************************************************************************)
\* the interior value at space index a of column col; the matrix has no
\* column for a = 0 or a = Nx
InteriorAt(a, col) == IF a \in 1 .. Nx - 1 THEN u[a][col] ELSE Zero

\* row a of the product B * u[1..Nx-1, col], B tridiagonal with diagonal
\* 1+2*nu and off-diagonals -nu, nu from the arguments
TridiagonalRow(a, col) ==
    RSub(RSub(RMul(RAdd(One, RAdd(NuFromArgs, NuFromArgs)), InteriorAt(a, col)),
              RMul(NuFromArgs, InteriorAt(a - 1, col))),
         RMul(NuFromArgs, InteriorAt(a + 1, col)))

BTridiagonal ==
    [row \in 0 .. Nx - 2 |-> [col \in 0 .. Nx - 2 |->
        IF row = col THEN RAdd(One, RAdd(NuFromArgs, NuFromArgs))
        ELSE IF row - col \in {-1, 1} THEN RNeg(NuFromArgs) ELSE Zero]]

C4_Grid ==
    (fn = "fd_backward_heat" /\ pc \in {"bwd_loop", "done"})
    => /\ DOMAIN u = 0 .. Nx - 1
       /\ \A a \in DOMAIN u : DOMAIN u[a] = 0 .. Nt - 1
       /\ \A a \in 1 .. Nx - 1 : u[a][0] = TentAt(a)
       /\ B = BTridiagonal
       /\ \A a \in 0 .. Nx - 2 : \A col \in 0 .. Nx - 2 :
             DotUpTo(U[a], [k \in 0 .. Nx - 2 |-> R[k][col]], Nx - 1) = B[a][col]
       /\ \A col \in 0 .. Nt - 2 : col < i =>
             \A a \in 1 .. Nx - 1 : TridiagonalRow(a, col + 1) = u[a][col]
       /\ pc = "done" => i = Nt - 1

C4_FactorizedOnce ==
    (fn = "fd_backward_heat" /\ pc \in {"bwd_ic", "bwd_loop"})
    => /\ B' = B /\ U' = U /\ R' = R /\ U_inv' = U_inv /\ R_inv' = R_inv

Estimated == pc = "done" /\ fn \in {"Standard_MC", "SMC", "Anti_thetic_MC"}

\* C5: for 0 < alpha < 1 and N >= 1 each of Standard_MC, SMC and
\* Anti_thetic_MC returns ki = (lower, upper) with
\* lower <= p_mc <= upper and upper - p_mc = p_mc - lower.
C5_Interval ==
    (Estimated /\ RLt(Zero, alpha) /\ RLt(alpha, One) /\ N >= 1)
    => /\ XLe(ki[1], p_mc)
       /\ XLe(p_mc, ki[2])
       /\ XSub(ki[2], p_mc) = XSub(p_mc, ki[1])

\* C5 witness: Anti_thetic_MC returned, at alpha = 0.05 and N = 2, an
\* interval that strictly contains the estimate.
C5_Witness ==
    /\ pc = "done" /\ fn = "Anti_thetic_MC"
    /\ N = 2 /\ alpha = <<1, 20>>
    /\ RLt(Zero, var_mc)
    /\ XLe(ki[1], p_mc) /\ ki[1] # p_mc
    /\ XLe(p_mc, ki[2]) /\ ki[2] # p_mc

\* phi(T, x) = phi(T, -x) at the test points
PhiEven ==
    \A x \in {Half, One, Two, <<3, 1>>} : bs_phi(env, T, x) = bs_phi(env, T, RNeg(x))

\* exp(-r*T)*payoff(phi(T, sqrt(T)*z)), the payoff being the one of line 164
OneSided(z) == RMul(discount, call_payoff(bs_phi(env, T, RMul(np_sqrt(T), z))))

RMax0(a) == IF RLe(Zero, a) THEN a ELSE Zero

\* 0.5*exp(-r*T)*(max(phi(T, sqrt(T)*z) - K, 0) + max(phi(T, -sqrt(T)*z) - K, 0))
FlooredSample(z) ==
    RMul(RMul(Half, discount),
         RAdd(RMax0(RSub(bs_phi(env, T, RMul(np_sqrt(T), z)), K)),
              RMax0(RSub(bs_phi(env, T, RNeg(RMul(np_sqrt(T), z))), K))))

\* C9: the j-th sample of Anti_thetic_MC is the halved, discounted sum of
\* the two call payoffs, each floored at zero, so every sample and the
\* point estimate are >= 0.
C9_FlooredSamples ==
    (fn = "Anti_thetic_MC" /\ pc \in {"anti_loop", "done"})
    => /\ \A k \in 1 .. j :
             samples[k] = FlooredSample(draws[k]) /\ RLe(Zero, samples[k])
       /\ (pc = "done" /\ N >= 1) => XLe(Zero, p_mc)

\* C8: a call with non-positive N, Nx, Nt, T or L, or with alpha outside
\* (0, 1), ends in an error at entry: it is never past the entry of
\* Monte_Carlo, Standard_MC, SMC, Anti_thetic_MC, fd_forward_heat or
\* fd_backward_heat without having raised.
C8_RejectsInvalid ==
    LET heat == fn \in {"fd_forward_heat", "fd_backward_heat"}
        mc == fn \in {"Monte_Carlo", "Standard_MC", "SMC", "Anti_thetic_MC"}
    IN  /\ (heat /\ (Nx <= 0 \/ Nt <= 0 \/ RLe(T, Zero) \/ RLe(L, Zero)))
           => pc = "error"
        /\ (mc /\ (N <= 0 \/ RLe(T, Zero) \/ RLe(alpha, Zero) \/ RLe(One, alpha)))
           => pc = "error"

(***************************************************************************)
(* Claims about get_max_error, checked under SpecErr.                      *)
(***************************************************************************)
\* C7: get_max_error of a slice whose every entry equals real_sol at the
\* corresponding space point returns 0.
C7_ExactSliceZero ==
    (fn = "get_max_error" /\ pc = "done"
        /\ \A k \in 1 .. Len(u_approx) :
              u_approx[k] = real_sol(<<1, 10>>, space_point(k - 1, delta_x, L)))
    => error = Zero
====
